---- MODULE Spec2Model ----
(***************************************************************************)
(* The standalone DeliverEase widget script generated by                   *)
(* generateStandaloneWidget (ui/src/components/ManualAddressForm.tsx, the  *)
(* <script> block): phone input sanitising and validation, the            *)
(* timeout-guarded address lookup of handleSubmit, the classification of   *)
(* its outcome, the embedded / standalone routing of the result, the       *)
(* toast and the manual-entry overlay.                                     *)
(*                                                                         *)
(* Strings the script computes on (the phone number, the input's value)    *)
(* are sequences of one-character strings.  The JavaScript event loop is   *)
(* modelled by one action per task: a handler runs to its next await, and  *)
(* the continuation of an await runs, with all its microtasks, as one      *)
(* step.                                                                   *)
(***************************************************************************)
EXTENDS Naturals, Sequences, FiniteSets, TLC

VARIABLES
    embedded,       \* window.parent && window.parent !== window (fixed per page)
    phoneNumber,    \* let phoneNumber
    isLoading,      \* let isLoading
    inputValue,     \* #phoneNumber .value
    inputDisabled,  \* #phoneNumber .disabled
    buttonDisabled, \* #checkButton .disabled
    spinnerShown,   \* #loadingSpinner display block, #buttonText display none
    errorShown,     \* #errorMessage display block
    toast,          \* #toast: [shown, text, isError]
    toastTimers,    \* pending setTimeout callbacks of showToast
    overlays,       \* the #manual-entry-overlay elements of the body, in document order
    messages,       \* window.parent.postMessage calls, in order
    subs,           \* the handleSubmit invocations that passed the guard, in order
    pasteTimers     \* pending setTimeout(0) callbacks of the paste listener

vars == <<embedded, phoneNumber, isLoading, inputValue, inputDisabled, buttonDisabled,
          spinnerShown, errorShown, toast, toastTimers, overlays, messages, subs,
          pasteTimers>>

\* ------------------------------------------------------------------ bounds
MaxSubmissions == 2
MaxPasteTimers == 1

\* --------------------------------------------------------- program constants
PhoneDigits == 8
MaxLengthAttr == 8

Digits == {"0", "1", "2", "3", "4", "5", "6", "7", "8", "9"}
\* What the user enters in the phone field: separators are typed, digits arrive
\* by paste, as formatted pieces of a number.
TypedChars == {"-", " "}
PasteTexts == {<<"4", "-", "2", "4", "2">>}
Statuses == {200, 404, 429, 503}
\* Response bodies as token sequences: the punctuation of JSON, every other token
\* a string literal.  Two objects, an HTML error page and a truncated object.
BodyTexts ==
    {<<"{", "street", ":", "Storgata 1", ",", "postalCode", ":", "0155", ",",
       "city", ":", "Oslo", "}">>,
     <<"{", "city", ":", "Bergen", "}">>,
     <<"<", "html", ">">>,
     <<"{", "street", ":", "Storgata 1", ",">>}

\* What the user enters in the manual-entry form.
ManualNames == {<<"O", "l", "a", " ", "N">>}
ManualAddress == "Storgata 1"
ManualPostalCode == "0155"
ManualCity == "Oslo"

rateLimitMessage ==
    "Address lookup service is temporarily busy. Please enter your address manually."
TimeoutErrorText == "TRANSLATIONS.timeoutError"
LookupFailedText == "TRANSLATIONS.lookupFailed"
AddressFoundText == "TRANSLATIONS.addressFound"
ManualSubmittedText == "Address information submitted successfully!"

ApiTimeoutError == "ApiTimeoutError"
AddressLookupFailed == "Address lookup failed"
FetchErrors == {"TypeError: Failed to fetch"}
JsonErrors == {"SyntaxError: Unexpected token"}
JsonSyntaxError == "SyntaxError: Unexpected token"

\* ------------------------------------------------------------ pure functions
IsDigit(c) == c \in Digits

SanitizeKeepsAll(value) == value

\* replace without the g flag: only the first non-digit goes
SanitizeFirstOnly(value) ==
    IF \A i \in 1..Len(value) : IsDigit(value[i])
    THEN value
    ELSE LET i == CHOOSE j \in 1..Len(value) :
                      ~IsDigit(value[j]) /\ \A h \in 1..(j - 1) : IsDigit(value[h])
         IN  SubSeq(value, 1, i - 1) \o SubSeq(value, i + 1, Len(value))

\* value.replace(/[^0-9]/g, '')
Sanitize(value) == SelectSeq(value, IsDigit)

\* the pattern without its end anchor
validateWithoutEndAnchor(number) ==
    /\ Len(number) >= PhoneDigits
    /\ \A i \in 1..PhoneDigits : IsDigit(number[i])

\* /^\d{8}$/.test(number)
validatePhoneNumber(number) ==
    /\ Len(number) = PhoneDigits
    /\ \A i \in 1..Len(number) : IsDigit(number[i])

\* response.json() on a body that has been read: JSON.parse of an object of
\* string members, a later member of the same name replacing an earlier one.
JsonPunctuation == {"{", "}", ":", ",", "<", ">", "[", "]"}

IsLiteral(text, i) == i <= Len(text) /\ text[i] \notin JsonPunctuation

IsToken(text, i, token) == i <= Len(text) /\ text[i] = token

RECURSIVE JsonMembers(_, _, _)
JsonMembers(text, i, acc) ==
    IF IsLiteral(text, i) /\ IsToken(text, i + 1, ":") /\ IsLiteral(text, i + 2)
    THEN LET value == (text[i] :> text[i + 2]) @@ acc
         IN  IF IsToken(text, i + 3, "}") /\ Len(text) = i + 3
             THEN [ok |-> TRUE, value |-> value]
             ELSE IF IsToken(text, i + 3, ",")
             THEN JsonMembers(text, i + 4, value)
             ELSE [ok |-> FALSE]
    ELSE [ok |-> FALSE]

JsonParse(text) ==
    IF IsToken(text, 1, "{") THEN JsonMembers(text, 2, <<>>) ELSE [ok |-> FALSE]

AddressBodies == {JsonParse(text).value : text \in {b \in BodyTexts : JsonParse(b).ok}}

\* response.ok
ResponseOk(status) == status >= 200 /\ status <= 299

IsRateLimitedOnly429(status) == status = 429

\* response.status === 429 || response.status === 503
IsRateLimited(status) == status = 429 \/ status = 503

\* ---------------------------------------------------- the widget's page state
\* The script's globals and the DOM it writes, as one record, so that the
\* script's functions compose as they do in the source.
Page ==
    [embedded |-> embedded, phoneNumber |-> phoneNumber, isLoading |-> isLoading,
     inputValue |-> inputValue, inputDisabled |-> inputDisabled,
     buttonDisabled |-> buttonDisabled, spinnerShown |-> spinnerShown,
     errorShown |-> errorShown, toast |-> toast, toastTimers |-> toastTimers,
     overlays |-> overlays, messages |-> messages]

Install(w) ==
    /\ embedded' = w.embedded
    /\ phoneNumber' = w.phoneNumber
    /\ isLoading' = w.isLoading
    /\ inputValue' = w.inputValue
    /\ inputDisabled' = w.inputDisabled
    /\ buttonDisabled' = w.buttonDisabled
    /\ spinnerShown' = w.spinnerShown
    /\ errorShown' = w.errorShown
    /\ toast' = w.toast
    /\ toastTimers' = w.toastTimers
    /\ overlays' = w.overlays
    /\ messages' = w.messages

handlePhoneChange(w, value) ==
    LET sanitized == Sanitize(value)
        isValid == validatePhoneNumber(sanitized)
        hasValue == Len(sanitized) > 0
    IN  [w EXCEPT !.phoneNumber = sanitized,
                  !.inputValue = IF w.inputValue # sanitized THEN sanitized
                                 ELSE w.inputValue,
                  !.errorShown = hasValue /\ ~isValid,
                  !.buttonDisabled = ~isValid \/ w.isLoading]

showToast(w, message, isError) ==
    [w EXCEPT !.toast = [shown |-> TRUE, text |-> message, isError |-> isError],
              !.toastTimers = w.toastTimers + 1]

setLoadingEnablesButton(w, loading) ==
    IF loading
    THEN [w EXCEPT !.isLoading = TRUE, !.spinnerShown = TRUE,
                   !.buttonDisabled = TRUE, !.inputDisabled = TRUE]
    ELSE [w EXCEPT !.isLoading = FALSE, !.spinnerShown = FALSE,
                   !.buttonDisabled = FALSE, !.inputDisabled = FALSE]

\* setLoading without the line that disables the input
setLoadingLeavesInputEnabled(w, loading) ==
    IF loading
    THEN [w EXCEPT !.isLoading = TRUE, !.spinnerShown = TRUE, !.buttonDisabled = TRUE]
    ELSE [w EXCEPT !.isLoading = FALSE, !.spinnerShown = FALSE,
                   !.buttonDisabled = ~validatePhoneNumber(w.phoneNumber),
                   !.inputDisabled = FALSE]

setLoading(w, loading) ==
    IF loading
    THEN [w EXCEPT !.isLoading = TRUE, !.spinnerShown = TRUE,
                   !.buttonDisabled = TRUE, !.inputDisabled = TRUE]
    ELSE [w EXCEPT !.isLoading = FALSE, !.spinnerShown = FALSE,
                   !.buttonDisabled = ~validatePhoneNumber(w.phoneNumber),
                   !.inputDisabled = FALSE]

postMessage(w, message) == [w EXCEPT !.messages = Append(w.messages, message)]

\* The overlay is appended to the body with a fresh form; the submit listener is
\* added to document.getElementById('manual-address-form'), the first such form of
\* the document.
showManualEntryPopup(w, errorMessage) ==
    LET appended == Append(w.overlays,
                        [errorMessage |-> errorMessage, phone |-> w.phoneNumber,
                         listeners |-> 0, name |-> <<>>, address |-> "",
                         postalCode |-> "", city |-> ""])
    IN  [w EXCEPT !.overlays = [appended EXCEPT ![1].listeners = @ + 1]]

closeManualEntryPopup(w) ==
    IF w.overlays # <<>> THEN [w EXCEPT !.overlays = Tail(w.overlays)] ELSE w

\* ------------------------------------------------------------- handleSubmit
SubmitGuardWithoutLoading(w) == validatePhoneNumber(w.phoneNumber)

SubmitGuardWithoutValidation(w) == ~w.isLoading

\* if (!validatePhoneNumber(phoneNumber) || isLoading) return;
SubmitGuard(w) == validatePhoneNumber(w.phoneNumber) /\ ~w.isLoading

\* One handleSubmit invocation past its guard: the request it sent, the promises
\* of callWithTimeout, and where the invocation stands.  outcomes records the
\* handling blocks of handleSubmit the invocation has run.
NewSubmission(w) ==
    [phone_number |-> w.phoneNumber,   \* body of the fetch
     fetch |-> "inflight",             \* inflight | settled
     race |-> "pending",               \* Promise.race: pending | call | timer
     timer |-> TRUE,                   \* timeoutHandle still scheduled
     pc |-> "race",                    \* race | json | done
     outcomes |-> <<>>]

OpenPopupManual(w, errorMessage) ==
    [type |-> "deliverease-open-popup",
     data |-> [phoneNumber |-> w.phoneNumber, manualEntry |-> TRUE,
               error |-> errorMessage]]

OpenPopupAddressOfFirstMember(w, addressData) ==
    [type |-> "deliverease-open-popup",
     data |-> [phoneNumber |-> w.phoneNumber,
               address |-> LET key == CHOOSE x \in DOMAIN addressData : TRUE
                           IN  (key :> addressData[key])]]

OpenPopupAddress(w, addressData) ==
    [type |-> "deliverease-open-popup",
     data |-> [phoneNumber |-> w.phoneNumber, address |-> addressData]]

\* lines 514-531: the body of if (response.status === 429 || response.status === 503)
RateLimitedBlock(w) ==
    IF w.embedded
    THEN postMessage(w, OpenPopupManual(w, rateLimitMessage))
    ELSE showManualEntryPopup(w, rateLimitMessage)

FallThroughToErrorThrowing == FALSE

\* line 532: return; // Skip the error throwing
SkipErrorThrowing == TRUE

\* the success path without the reset of the form
SuccessBlockKeepsNumber(w, addressData) ==
    LET w1 == IF w.embedded THEN postMessage(w, OpenPopupAddress(w, addressData))
              ELSE w
    IN  showToast(w1, AddressFoundText, FALSE)

\* lines 541-556: after const addressData = await response.json()
SuccessBlock(w, addressData) ==
    LET w1 == IF w.embedded THEN postMessage(w, OpenPopupAddress(w, addressData))
              ELSE w
        w2 == [w1 EXCEPT !.inputValue = <<>>, !.phoneNumber = <<>>]
        w3 == handlePhoneChange(w2, <<>>)
    IN  showToast(w3, AddressFoundText, FALSE)

ErrorTextAlwaysLookupFailed(message) == LookupFailedText

ErrorTextAlwaysTimeout(message) == TimeoutErrorText

\* lines 563-567
ErrorText(message) ==
    IF message = ApiTimeoutError THEN TimeoutErrorText ELSE LookupFailedText

CatchBlockAlwaysLocal(w, message) == showManualEntryPopup(w, ErrorText(message))

\* lines 558-582: catch (error)
CatchBlock(w, message) ==
    IF w.embedded
    THEN postMessage(w, OpenPopupManual(w, ErrorText(message)))
    ELSE showManualEntryPopup(w, ErrorText(message))

FinallyBlockSkipped(w) == w

\* lines 584-586: finally { setLoading(false); }
FinallyBlock(w) == setLoading(w, FALSE)

\* The classification of section 4.3 that a thrown error stands for.
ClassifyError(message) ==
    IF message = ApiTimeoutError THEN "TimedOut"
    ELSE IF message = AddressLookupFailed THEN "LookupFailed"
    ELSE "GenericFailure"

Ended(s, outcome) == [s EXCEPT !.pc = "done", !.outcomes = Append(@, outcome)]

\* An error thrown inside the try block of the invocation s.
Caught(w, s, message) ==
    [w |-> FinallyBlock(CatchBlock(w, message)), s |-> Ended(s, ClassifyError(message))]

\* lines 513-539: handleSubmit from the response to await response.json()
AfterResponse(w, s, status) ==
    LET w1 == IF IsRateLimited(status) THEN RateLimitedBlock(w) ELSE w
        s1 == IF IsRateLimited(status)
              THEN [s EXCEPT !.outcomes = Append(@, "RateLimited")] ELSE s
    IN  IF IsRateLimited(status) /\ SkipErrorThrowing
        THEN [w |-> FinallyBlock(w1), s |-> [s1 EXCEPT !.pc = "done"]]
        ELSE IF ~ResponseOk(status)
        THEN Caught(w1, s1, AddressLookupFailed)
        ELSE [w |-> w1, s |-> [s1 EXCEPT !.pc = "json"]]

\* lines 539-556 and the finally block
AfterJson(w, s, addressData) ==
    [w |-> FinallyBlock(SuccessBlock(w, addressData)), s |-> Ended(s, "Success")]

\* ---------------------------------------------------------- callWithTimeout
RaceNeverSettled(s) == TRUE

\* Promise.race settles with the first of its two promises; a promise settles once.
RaceIsPending(s) == s.race = "pending"

clearTimeoutForgotten(s) == s

clearTimeout(s) == [s EXCEPT !.timer = FALSE]

\* ------------------------------------------------------------------ actions
InitialPage(e) ==
    /\ embedded = e
    /\ phoneNumber = <<>>
    /\ isLoading = FALSE
    /\ inputValue = <<>>
    /\ inputDisabled = FALSE
    /\ buttonDisabled = TRUE
    /\ spinnerShown = FALSE
    /\ errorShown = FALSE
    /\ toast = [shown |-> FALSE, text |-> "", isError |-> FALSE]
    /\ toastTimers = 0
    /\ overlays = <<>>
    /\ messages = <<>>
    /\ subs = <<>>
    /\ pasteTimers = 0

Init == \E e \in BOOLEAN : InitialPage(e)

\* A submit event of #phoneForm.
HandleSubmit ==
    IF ~SubmitGuard(Page)
    THEN UNCHANGED vars
    ELSE /\ Len(subs) < MaxSubmissions
         /\ Install(setLoading(Page, TRUE))
         /\ subs' = Append(subs, NewSubmission(Page))
         /\ UNCHANGED pasteTimers

\* a failed invocation starts the lookup again
ContinueWithRetry(k, r) ==
    /\ Install(r.w)
    /\ subs' = IF r.s.pc = "done" /\ r.s.outcomes # <<"Success">>
                  /\ Len(subs) < MaxSubmissions
               THEN Append([subs EXCEPT ![k] = r.s], NewSubmission(r.w))
               ELSE [subs EXCEPT ![k] = r.s]
    /\ UNCHANGED pasteTimers

Continue(k, r) ==
    /\ Install(r.w)
    /\ subs' = [subs EXCEPT ![k] = r.s]
    /\ UNCHANGED pasteTimers

\* The fetch of invocation k resolves with a response of the given status.
FetchResolves(k, status) ==
    /\ subs[k].fetch = "inflight"
    /\ LET s1 == [subs[k] EXCEPT !.fetch = "settled"]
       IN  IF RaceIsPending(subs[k])
           THEN Continue(k, AfterResponse(Page, clearTimeout([s1 EXCEPT !.race = "call"]),
                                          status))
           ELSE Continue(k, [w |-> Page, s |-> s1])

\* The fetch of invocation k rejects (a transport error).
FetchRejects(k, message) ==
    /\ subs[k].fetch = "inflight"
    /\ LET s1 == [subs[k] EXCEPT !.fetch = "settled"]
       IN  IF RaceIsPending(subs[k])
           THEN Continue(k, Caught(Page, clearTimeout([s1 EXCEPT !.race = "call"]),
                                   message))
           ELSE Continue(k, [w |-> Page, s |-> s1])

\* The 8000 ms timer of invocation k fires: reject(new Error('ApiTimeoutError')).
TimerFires(k) ==
    /\ subs[k].timer
    /\ LET s1 == [subs[k] EXCEPT !.timer = FALSE]
       IN  IF RaceIsPending(subs[k])
           THEN Continue(k, Caught(Page, clearTimeout([s1 EXCEPT !.race = "timer"]),
                                   ApiTimeoutError))
           ELSE Continue(k, [w |-> Page, s |-> s1])

\* response.json() of invocation k resolves.
JsonResolves(k, addressData) ==
    /\ subs[k].pc = "json"
    /\ Continue(k, AfterJson(Page, subs[k], addressData))

\* response.json() of invocation k rejects (the body is not JSON, or its read fails).
JsonRejects(k, message) ==
    /\ subs[k].pc = "json"
    /\ Continue(k, Caught(Page, subs[k], message))

\* The body of the response of invocation k has been read: response.json() resolves
\* with what it parses to, or rejects with a SyntaxError.
BodyRead(k, text) ==
    IF JsonParse(text).ok
    THEN JsonResolves(k, JsonParse(text).value)
    ELSE JsonRejects(k, JsonSyntaxError)

\* ------------------------------------------------------------ the phone input
Min(a, b) == IF a < b THEN a ELSE b

\* The input event (oninput="handlePhoneChange(this.value)") after the browser has
\* put the new value into the field.
InputEvent(value) ==
    /\ Install(handlePhoneChange([Page EXCEPT !.inputValue = value], value))
    /\ UNCHANGED <<subs, pasteTimers>>

\* The user types one character at the end of the field (maxlength="8").
TypeChar(c) ==
    /\ ~inputDisabled
    /\ Len(inputValue) < MaxLengthAttr
    /\ InputEvent(Append(inputValue, c))

\* The user selects the whole field and deletes it.
ClearField ==
    /\ ~inputDisabled
    /\ inputValue # <<>>
    /\ InputEvent(<<>>)

\* The user pastes a text at the end of the field: the paste listener schedules
\* its setTimeout(0), the browser inserts what maxlength leaves room for, and the
\* input event follows.
Paste(text) ==
    /\ ~inputDisabled
    /\ pasteTimers < MaxPasteTimers
    /\ LET room == MaxLengthAttr - Len(inputValue)
           value == inputValue \o SubSeq(text, 1, Min(Len(text), room))
       IN  Install(handlePhoneChange([Page EXCEPT !.inputValue = value], value))
    /\ pasteTimers' = pasteTimers + 1
    /\ UNCHANGED subs

\* lines 594-601: the deferred callback of the paste listener
PasteCallback(w) ==
    LET value == w.inputValue
        sanitized == Sanitize(value)
    IN  IF value # sanitized
        THEN handlePhoneChange([w EXCEPT !.inputValue = sanitized], sanitized)
        ELSE w

PasteTimerFires ==
    /\ pasteTimers > 0
    /\ Install(PasteCallback(Page))
    /\ pasteTimers' = pasteTimers - 1
    /\ UNCHANGED subs

\* ------------------------------------------------------------------ the toast
\* lines 333-335: the callback of showToast's setTimeout
ToastCallback(w) == [w EXCEPT !.toast.shown = FALSE]

ToastTimerFires ==
    /\ toastTimers > 0
    /\ Install([ToastCallback(Page) EXCEPT !.toastTimers = @ - 1])
    /\ UNCHANGED <<subs, pasteTimers>>

\* ----------------------------------------------------- the manual-entry modal
\* The cancel button (onclick="closeManualEntryPopup()") of an overlay, or a click
\* on the overlay itself.
CancelManualEntry ==
    /\ overlays # <<>>
    /\ Install(closeManualEntryPopup(Page))
    /\ UNCHANGED <<subs, pasteTimers>>

\* The user fills the four required fields of overlay i.
FillManualForm(i, name) ==
    /\ overlays[i].name = <<>>
    /\ Install([Page EXCEPT !.overlays[i].name = name,
                            !.overlays[i].address = ManualAddress,
                            !.overlays[i].postalCode = ManualPostalCode,
                            !.overlays[i].city = ManualCity])
    /\ UNCHANGED <<subs, pasteTimers>>

\* The required attribute of the four fields: the browser submits the form only
\* when none of them is empty.
RequiredFieldsFilled(o) ==
    o.name # <<>> /\ o.address # "" /\ o.postalCode # "" /\ o.city # ""

\* value.split(' ')
RECURSIVE SplitOn(_, _)
SplitOn(s, sep) ==
    IF \A i \in 1..Len(s) : s[i] # sep
    THEN <<s>>
    ELSE LET i == CHOOSE j \in 1..Len(s) :
                      s[j] = sep /\ \A h \in 1..(j - 1) : s[h] # sep
         IN  <<SubSeq(s, 1, i - 1)>> \o SplitOn(SubSeq(s, i + 1, Len(s)), sep)

\* parts.join(' ')
RECURSIVE JoinWith(_, _)
JoinWith(parts, sep) ==
    IF parts = <<>> THEN <<>>
    ELSE IF Len(parts) = 1 THEN parts[1]
    ELSE parts[1] \o <<sep>> \o JoinWith(Tail(parts), sep)

\* x || ''
OrEmpty(x) == IF x = <<>> THEN <<>> ELSE x

\* document.getElementById('manual-name').value.split(' ')[0] || ''
FirstName(name) == OrEmpty(SplitOn(name, " ")[1])

LastNameSecondPiece(name) ==
    IF Len(SplitOn(name, " ")) >= 2 THEN OrEmpty(SplitOn(name, " ")[2]) ELSE <<>>

\* document.getElementById('manual-name').value.split(' ').slice(1).join(' ') || ''
LastName(name) == OrEmpty(JoinWith(Tail(SplitOn(name, " ")), " "))

\* lines 456-463: manualData, its fields read by id from the first overlay
ManualData(w) ==
    [phoneNumber |-> w.overlays[1].phone,
     firstName |-> FirstName(w.overlays[1].name),
     lastName |-> LastName(w.overlays[1].name),
     address |-> w.overlays[1].address,
     postalCode |-> w.overlays[1].postalCode,
     city |-> w.overlays[1].city]

\* the submit listener without its test for a parent frame
ManualSubmitListenerAlwaysPosts(w) ==
    IF w.overlays = <<>>
    THEN w
    ELSE LET w1 == postMessage(w, [type |-> "deliverease-manual-data",
                                   data |-> ManualData(w)])
         IN  showToast(closeManualEntryPopup(w1), ManualSubmittedText, FALSE)

\* lines 453-475: one run of the submit listener.  The fields are read by id, so
\* from the first overlay of the document; with no overlay left, reading .value of
\* null throws and the listener ends there.
ManualSubmitListener(w) ==
    IF w.overlays = <<>>
    THEN w
    ELSE LET w1 == IF w.embedded
                   THEN postMessage(w, [type |-> "deliverease-manual-data",
                                        data |-> ManualData(w)])
                   ELSE w
         IN  showToast(closeManualEntryPopup(w1), ManualSubmittedText, FALSE)

RECURSIVE RunListeners(_, _)
RunListeners(w, n) == IF n = 0 THEN w ELSE RunListeners(ManualSubmitListener(w), n - 1)

\* The document is loaded again: the script starts over, nothing of the old page
\* is left.
ReloadPage ==
    /\ embedded' = embedded
    /\ phoneNumber' = <<>>
    /\ isLoading' = FALSE
    /\ inputValue' = <<>>
    /\ inputDisabled' = FALSE
    /\ buttonDisabled' = TRUE
    /\ spinnerShown' = FALSE
    /\ errorShown' = FALSE
    /\ toast' = [shown |-> FALSE, text |-> "", isError |-> FALSE]
    /\ toastTimers' = 0
    /\ overlays' = <<>>
    /\ messages' = <<>>
    /\ subs' = <<>>
    /\ pasteTimers' = 0

\* The form of overlay i is submitted.  Each listener on that form runs
\* (e.preventDefault()); a form with no listener is submitted by the browser, which
\* loads the document again.
ManualEntrySubmit(i) ==
    /\ RequiredFieldsFilled(overlays[i])
    /\ IF overlays[i].listeners = 0
       THEN ReloadPage
       ELSE /\ Install(RunListeners(Page, overlays[i].listeners))
            /\ UNCHANGED <<subs, pasteTimers>>

\* ------------------------------------------------------------ specification
Next ==
    \/ HandleSubmit
    \/ \E k \in DOMAIN subs, status \in Statuses : FetchResolves(k, status)
    \/ \E k \in DOMAIN subs, message \in FetchErrors : FetchRejects(k, message)
    \/ \E k \in DOMAIN subs : TimerFires(k)
    \/ \E k \in DOMAIN subs, text \in BodyTexts : BodyRead(k, text)
    \/ \E k \in DOMAIN subs, message \in JsonErrors : JsonRejects(k, message)
    \/ \E c \in TypedChars : TypeChar(c)
    \/ ClearField
    \/ \E text \in PasteTexts : Paste(text)
    \/ PasteTimerFires
    \/ ToastTimerFires
    \/ CancelManualEntry
    \/ \E i \in DOMAIN overlays, name \in ManualNames : FillManualForm(i, name)
    \/ \E i \in DOMAIN overlays : ManualEntrySubmit(i)

Spec == Init /\ [][Next]_vars

\* Timers run when due; the network owes the page nothing.
FairSpec ==
    /\ Spec
    /\ WF_vars(\E k \in DOMAIN subs : TimerFires(k))
    /\ WF_vars(ToastTimerFires)
    /\ WF_vars(PasteTimerFires)

\* ------------------------------------------- the functions on their own
MaxRawLen == 3
MaxNumberLen == 9
MaxNameLen == 4

TextsUpTo(alphabet, n) == UNION {[1..m -> alphabet] : m \in 0..n}

\* The page as the script's initialisation leaves it (lines 293-294, 606-608).
Blank(e) ==
    [embedded |-> e, phoneNumber |-> <<>>, isLoading |-> FALSE, inputValue |-> <<>>,
     inputDisabled |-> FALSE, buttonDisabled |-> TRUE, spinnerShown |-> FALSE,
     errorShown |-> FALSE, toast |-> [shown |-> FALSE, text |-> "", isError |-> FALSE],
     toastTimers |-> 0, overlays |-> <<>>, messages |-> <<>>]

PageIs(w) ==
    /\ embedded = w.embedded
    /\ phoneNumber = w.phoneNumber
    /\ isLoading = w.isLoading
    /\ inputValue = w.inputValue
    /\ inputDisabled = w.inputDisabled
    /\ buttonDisabled = w.buttonDisabled
    /\ spinnerShown = w.spinnerShown
    /\ errorShown = w.errorShown
    /\ toast = w.toast
    /\ toastTimers = w.toastTimers
    /\ overlays = w.overlays
    /\ messages = w.messages

\* The sanitizer: the browser has put a raw text into the phone field, by typing
\* or by a paste whose deferred callback is still due, and the input event and
\* that callback are about to run on it.
RawTexts == TextsUpTo({"4", "2", "-", " "}, MaxRawLen)

SanitizeInit ==
    \E raw \in RawTexts, due \in 0..MaxPasteTimers :
        /\ PageIs([Blank(FALSE) EXCEPT !.inputValue = raw])
        /\ subs = <<>>
        /\ pasteTimers = due

OnInput == InputEvent(inputValue)

SanitizeNext == OnInput \/ PasteTimerFires

SanitizeSpec == SanitizeInit /\ [][SanitizeNext]_vars

\* validatePhoneNumber: a submission is under way (setLoading(true) has run) with
\* a text held as the phone number; the finally block and the guard of the next
\* submit event test it.
NumberTexts == TextsUpTo({"7", "a"}, MaxNumberLen)

ValidateInit ==
    \E number \in NumberTexts :
        /\ PageIs(setLoading([Blank(FALSE) EXCEPT !.phoneNumber = number,
                                                  !.inputValue = number], TRUE))
        /\ subs = <<>>
        /\ pasteTimers = 0

Finally ==
    /\ isLoading
    /\ Install(FinallyBlock(Page))
    /\ UNCHANGED <<subs, pasteTimers>>

ValidateNext == Finally \/ HandleSubmit

ValidateSpec == ValidateInit /\ [][ValidateNext]_vars

\* The name split: showManualEntryPopup() has been called for a page holding a
\* phone number, embedded or not, and the user has filled the form, with a name of
\* letters and spaces.
NameTexts == TextsUpTo({"a", "b", " "}, MaxNameLen) \ {<<>>}

SplitPhone == <<"4", "2", "4", "2", "4", "2", "4", "4">>

SplitInit ==
    \E e \in BOOLEAN, name \in NameTexts :
        LET w0 == [Blank(e) EXCEPT !.phoneNumber = SplitPhone,
                                   !.inputValue = SplitPhone,
                                   !.buttonDisabled = FALSE]
            w1 == showManualEntryPopup(w0, LookupFailedText)
        IN  /\ PageIs([w1 EXCEPT !.overlays[1].name = name,
                                 !.overlays[1].address = ManualAddress,
                                 !.overlays[1].postalCode = ManualPostalCode,
                                 !.overlays[1].city = ManualCity])
            /\ subs = <<>>
            /\ pasteTimers = 0

SplitNext ==
    \/ \E i \in DOMAIN overlays : ManualEntrySubmit(i)
    \/ CancelManualEntry

SplitSpec == SplitInit /\ [][SplitNext]_vars

\* ------------------------------------------------------------------- claims
OnlyDigits(s) == \A i \in 1..Len(s) : s[i] \in Digits

Done(k) == subs[k].pc = "done"

Completes(k) == k \in DOMAIN subs' /\ subs[k].pc # "done" /\ subs'[k].pc = "done"

\* The request of invocation k is on the wire: no response yet, or its body is
\* still being read.
InFlight(k) == subs[k].fetch = "inflight" \/ subs[k].pc = "json"

\* Invocation k gave its request up when its timer won the race.
Abandoned(k) == subs[k].race = "timer"

TimedOutEnded(s) == s.race = "timer" => s.pc = "done" /\ s.outcomes = <<"TimedOut">>

\* C1: when the timer of a submission fires before its network call settles, the
\* submission ends as TimedOut, and the later settlement of the abandoned call
\* changes nothing: no message, no toast, no modal, phoneNumber, isLoading and the
\* form controls as they were, also while a newer submission is running.
C1_LateSettlementIsNoOp ==
    [][\A k \in DOMAIN subs' :
          /\ TimedOutEnded(subs'[k])
          /\ (/\ k \in DOMAIN subs
              /\ subs[k].race = "timer"
              /\ subs[k].fetch = "inflight"
              /\ subs'[k].fetch = "settled")
             => /\ UNCHANGED <<phoneNumber, isLoading, inputValue, inputDisabled,
                               buttonDisabled, spinnerShown, errorShown, toast,
                               toastTimers, overlays, messages>>
                /\ subs'[k].outcomes = subs[k].outcomes]_vars

C1_Witness ==
    \E k \in DOMAIN subs, j \in DOMAIN subs :
        /\ k < j
        /\ subs[k].race = "timer"
        /\ subs[k].fetch = "settled"
        /\ subs[j].pc # "done"
        /\ isLoading

Classifications == {"Success", "RateLimited", "LookupFailed", "TimedOut", "GenericFailure"}

\* C2: a submission that started a lookup has run at most one of the handling
\* blocks, and once it has ended it has run exactly one: its classification is
\* one of Success, RateLimited, LookupFailed, TimedOut, GenericFailure, never two.
C2_OneClassification ==
    \A k \in DOMAIN subs :
        /\ Len(subs[k].outcomes) <= 1
        /\ Done(k) <=> Len(subs[k].outcomes) = 1
        /\ \A i \in DOMAIN subs[k].outcomes : subs[k].outcomes[i] \in Classifications

C2_Witness ==
    \E k \in DOMAIN subs, j \in DOMAIN subs :
        /\ subs[k].outcomes = <<"RateLimited">>
        /\ subs[j].outcomes = <<"TimedOut">>
        /\ subs[j].fetch = "settled"

\* C3: once the network call of a submission has settled or its timer has fired,
\* isLoading eventually returns to false.
C3_NeverLeftPending ==
    (isLoading /\ \E k \in DOMAIN subs : subs[k].pc # "done" /\ subs[k].race # "pending")
        ~> ~isLoading

\* C4 as stated: at most one lookup request is in flight at any time, a request
\* abandoned by the timeout included.
C4_AtMostOneInFlight == Cardinality({k \in DOMAIN subs : InFlight(k)}) <= 1

\* C4: at most one lookup request that its submission still waits for is in
\* flight at any time; requests abandoned by the timeout may still be in flight
\* beside it.
C4_AtMostOneAwaited ==
    Cardinality({k \in DOMAIN subs : InFlight(k) /\ ~Abandoned(k)}) <= 1

C4_Witness ==
    \E k \in DOMAIN subs, j \in DOMAIN subs :
        /\ k < j
        /\ InFlight(k) /\ Abandoned(k)
        /\ InFlight(j) /\ ~Abandoned(j)

C3_Witness == \E k \in DOMAIN subs : subs[k].pc = "json" /\ isLoading /\ ~subs[k].timer

LastOverlay(ov) == ov[Len(ov)]

ManualData3(number, text) == [phoneNumber |-> number, manualEntry |-> TRUE, error |-> text]

\* C5: a response with status 429 or 503 that its submission receives is
\* classified RateLimited and routed to the manual-entry path with the rate-limit
\* advisory: one message with manualEntry true to the parent when embedded, the
\* local modal when standalone; never the lookupFailed or timeoutError text.
C5_RateLimitedRouting ==
    [][\A k \in DOMAIN subs, status \in {429, 503} :
          (subs[k].race = "pending" /\ FetchResolves(k, status))
          => /\ subs'[k].outcomes = <<"RateLimited">>
             /\ subs'[k].pc = "done"
             /\ IF embedded
                THEN /\ messages' = Append(messages,
                            [type |-> "deliverease-open-popup",
                             data |-> ManualData3(phoneNumber, rateLimitMessage)])
                     /\ overlays' = overlays
                ELSE /\ Len(overlays') = Len(overlays) + 1
                     /\ LastOverlay(overlays').errorMessage = rateLimitMessage
                     /\ messages' = messages]_vars

C5_Witness ==
    /\ \E k \in DOMAIN subs : subs[k].outcomes = <<"RateLimited">>
    /\ \/ \E i \in DOMAIN messages :
              /\ "error" \in DOMAIN messages[i].data
              /\ messages[i].data.error = rateLimitMessage
       \/ \E i \in DOMAIN overlays : overlays[i].errorMessage = rateLimitMessage

\* C6 as stated: an embedded widget renders no local toast and no local
\* manual-entry modal, whatever the outcome of a submission.
C6_EmbeddedNoLocalUI == embedded => ~toast.shown /\ overlays = <<>>

\* The message the parent gets for an ended submission s.
WellFormedFor(m, s) ==
    /\ m.type = "deliverease-open-popup"
    /\ m.data.phoneNumber = s.phone_number
    /\ IF s.outcomes = <<"Success">>
       THEN /\ DOMAIN m.data = {"phoneNumber", "address"}
            /\ m.data.address \in AddressBodies
       ELSE /\ DOMAIN m.data = {"phoneNumber", "manualEntry", "error"}
            /\ m.data.manualEntry = TRUE
            /\ m.data.error \in {rateLimitMessage, TimeoutErrorText, LookupFailedText}

\* C7: embedded, every ended submission has posted exactly one message, of type
\* deliverease-open-popup: phoneNumber and address and no manualEntry on Success;
\* phoneNumber, manualEntry true and an error string and no address otherwise.
\* Submissions end in the order they start, so the k-th message is the k-th
\* submission's; a submission that has not ended has posted none.
C7_OneMessagePerSubmission ==
    embedded =>
        /\ Len(messages) = Cardinality({k \in DOMAIN subs : Done(k)})
        /\ \A k \in DOMAIN subs : Done(k) =>
               /\ k \in DOMAIN messages
               /\ WellFormedFor(messages[k], subs[k])

C7_Witness ==
    /\ embedded
    /\ \E k \in DOMAIN subs, j \in DOMAIN subs :
           /\ subs[k].outcomes = <<"Success">>
           /\ subs[j].outcomes = <<"TimedOut">>
    /\ Len(messages) = 2

AdvisoryText(outcome) ==
    IF outcome = "RateLimited" THEN rateLimitMessage
    ELSE IF outcome = "TimedOut" THEN TimeoutErrorText
    ELSE LookupFailedText

\* C8: standalone, the step that ends a submission shows the addressFound toast
\* and opens no modal on Success, and opens the manual-entry modal with the
\* advisory text of the classification on RateLimited, TimedOut, LookupFailed and
\* GenericFailure; no step posts a message.
C8_StandaloneLocalUI ==
    [][~embedded =>
          /\ messages' = <<>>
          /\ \A k \in DOMAIN subs : Completes(k) =>
                 IF subs'[k].outcomes = <<"Success">>
                 THEN /\ toast'.shown
                      /\ toast'.text = AddressFoundText
                      /\ overlays' = overlays
                 ELSE /\ Len(subs'[k].outcomes) = 1
                      /\ Len(overlays') = Len(overlays) + 1
                      /\ LastOverlay(overlays').errorMessage =
                             AdvisoryText(subs'[k].outcomes[1])
                      /\ toast' = toast]_vars

C8_Witness ==
    /\ ~embedded
    /\ \E k \in DOMAIN subs, j \in DOMAIN subs :
           /\ subs[k].outcomes = <<"Success">>
           /\ subs[j].outcomes = <<"TimedOut">>
    /\ toast.shown
    /\ \E i \in DOMAIN overlays : overlays[i].errorMessage = TimeoutErrorText

\* C9: the submit control is enabled only if the stored phone number is exactly
\* 8 digits and no request is in flight (isLoading is false).
C9_ButtonEnabledOnlyIfValidAndIdle ==
    ~buttonDisabled => validatePhoneNumber(phoneNumber) /\ ~isLoading

\* The control is enabled again after a submission has been through
\* setLoading(true) and setLoading(false).
C9_Witness ==
    /\ ~buttonDisabled
    /\ \E k \in DOMAIN subs : Done(k) /\ subs[k].outcomes # <<"Success">>
    /\ \E k \in DOMAIN subs : subs[k].outcomes = <<"Success">>

\* C10: every lookup request carries a phone number of exactly 8 decimal digits,
\* and the stored phone number and the phoneNumber of every posted message hold
\* decimal digits only.
C10_OnlyValidNumbersLeave ==
    /\ OnlyDigits(phoneNumber)
    /\ \A k \in DOMAIN subs :
           /\ Len(subs[k].phone_number) = 8
           /\ OnlyDigits(subs[k].phone_number)
    /\ \A i \in DOMAIN messages : OnlyDigits(messages[i].data.phoneNumber)

\* A validation error is on display, after a request went out and a message was
\* posted.
C10_Witness ==
    /\ errorShown
    /\ phoneNumber # <<>>
    /\ subs # <<>>
    /\ messages # <<>>

\* The manual-entry path, taken with the advisory text: a manualEntry message to
\* the parent when embedded, a new modal showing the text when standalone.
ManualEntryPathWith(text) ==
    IF embedded
    THEN /\ messages' = Append(messages, [type |-> "deliverease-open-popup",
                                          data |-> ManualData3(phoneNumber, text)])
         /\ overlays' = overlays
    ELSE /\ Len(overlays') = Len(overlays) + 1
         /\ LastOverlay(overlays').errorMessage = text
         /\ messages' = messages

UnparseableBodies == {<<"<", "html", ">">>, <<"{", "street", ":", "Storgata 1", ",">>}

\* C11: the two failure kinds carry distinct advisory texts and both take the
\* manual-entry path: a timer that wins the race gives the timeoutError text; a
\* status outside 2xx other than 429 and 503, a transport error and an unparseable
\* body each give the lookupFailed text.
C11_DistinctAdvisoryText ==
    /\ TimeoutErrorText # LookupFailedText
    /\ [][\A k \in DOMAIN subs :
            /\ (subs[k].race = "pending" /\ TimerFires(k))
                   => ManualEntryPathWith(TimeoutErrorText)
            /\ \A status \in Statuses :
                   ( /\ status \notin {429, 503}
                     /\ (status < 200 \/ status > 299)
                     /\ subs[k].race = "pending"
                     /\ FetchResolves(k, status) )
                   => ManualEntryPathWith(LookupFailedText)
            /\ \A message \in FetchErrors :
                   (subs[k].race = "pending" /\ FetchRejects(k, message))
                   => ManualEntryPathWith(LookupFailedText)
            /\ \A text \in UnparseableBodies :
                   (subs[k].pc = "json" /\ BodyRead(k, text))
                   => ManualEntryPathWith(LookupFailedText)
         ]_vars

\* Both advisory texts have been given, one by a timeout and one by a failure.
C11_Witness ==
    /\ \E k \in DOMAIN subs : subs[k].outcomes = <<"TimedOut">>
    /\ \E k \in DOMAIN subs : subs[k].outcomes = <<"GenericFailure">>
    /\ IF embedded
       THEN /\ \E i \in DOMAIN messages :
                   /\ "error" \in DOMAIN messages[i].data
                   /\ messages[i].data.error = TimeoutErrorText
            /\ \E i \in DOMAIN messages :
                   /\ "error" \in DOMAIN messages[i].data
                   /\ messages[i].data.error = LookupFailedText
       ELSE /\ \E i \in DOMAIN overlays : overlays[i].errorMessage = TimeoutErrorText
            /\ \E i \in DOMAIN overlays : overlays[i].errorMessage = LookupFailedText

\* What the parseable bodies denote as JSON values.
Denoted(text) ==
    IF text = <<"{", "city", ":", "Bergen", "}">>
    THEN [city |-> "Bergen"]
    ELSE [street |-> "Storgata 1", postalCode |-> "0155", city |-> "Oslo"]

ParseableBodies == BodyTexts \ UnparseableBodies

\* C12: a 2xx response whose body parses ends its submission as Success, and in
\* embedded mode the message posted for it carries as address exactly the value
\* the body denotes, for each parseable body.
C12_BodyPassedUnchanged ==
    [][\A k \in DOMAIN subs, text \in ParseableBodies :
           (subs[k].pc = "json" /\ BodyRead(k, text))
           => /\ subs'[k].outcomes = <<"Success">>
              /\ subs'[k].pc = "done"
              /\ IF embedded
                 THEN messages' =
                          Append(messages,
                                 [type |-> "deliverease-open-popup",
                                  data |-> [phoneNumber |-> phoneNumber,
                                            address |-> Denoted(text)]])
                 ELSE messages' = messages
      ]_vars

\* The parent has received the address of the three-member body.
C12_Witness ==
    /\ embedded
    /\ \E k \in DOMAIN subs : subs[k].outcomes = <<"Success">>
    /\ \E i \in DOMAIN messages :
           /\ "address" \in DOMAIN messages[i].data
           /\ messages[i].data.address =
                  [street |-> "Storgata 1", postalCode |-> "0155", city |-> "Oslo"]

\* C13: a cancel of the manual-entry modal posts no message, shows no toast and
\* leaves no modal on the page, so none of the entered data is left either.
C13_CancelReturnsToClosed ==
    [][CancelManualEntry
           => /\ messages' = messages
              /\ toast' = toast
              /\ toastTimers' = toastTimers
              /\ overlays' = <<>>
      ]_vars

\* C14: a submit of the manual-entry form of modal i posts one
\* deliverease-manual-data message built from the fields of that form when
\* embedded and none when standalone, shows the success toast and leaves no modal
\* on the page.
C14_ManualSubmitClosesAndReports ==
    [][\A i \in DOMAIN overlays :
           ManualEntrySubmit(i)
           => /\ overlays' = <<>>
              /\ toast'.shown
              /\ toast'.text = ManualSubmittedText
              /\ IF embedded
                 THEN /\ Len(messages') = Len(messages) + 1
                      /\ messages'[Len(messages')].type = "deliverease-manual-data"
                      /\ messages'[Len(messages')].data.phoneNumber = overlays[i].phone
                      /\ messages'[Len(messages')].data.address = overlays[i].address
                      /\ messages'[Len(messages')].data.postalCode = overlays[i].postalCode
                      /\ messages'[Len(messages')].data.city = overlays[i].city
                 ELSE messages' = messages
      ]_vars

\* C15: the number of lookup requests grows only in a step of an accepted submit
\* event, and then by one: no step of a response, a timer, a body read or the
\* manual-entry modal issues a request, whatever outcome it ends with.
C15_NoAutomaticRetry ==
    [][/\ (Len(subs') > Len(subs))
           => /\ HandleSubmit
              /\ SubmitGuard(Page)
              /\ Len(subs') = Len(subs) + 1
              /\ SubSeq(subs', 1, Len(subs)) = subs
       /\ \A k \in DOMAIN subs :
              (Completes(k) /\ subs'[k].outcomes # <<>>) => Len(subs') = Len(subs)
      ]_vars

\* Two submissions have ended without success and no third request exists.
C15_Witness ==
    /\ Len(subs) = 2
    /\ subs[1].outcomes = <<"TimedOut">>
    /\ subs[2].outcomes = <<"RateLimited">>

\* C19: a call that settles while the race is pending clears the timer of its
\* callWithTimeout and comes out as it went in (a rejection ends the submission
\* with the call's own error, a response is handled by its own status); once the
\* race of a submission has settled, by the call or by the timer, its timer is no
\* longer scheduled.
C19_TimerClearedOnSettle ==
    /\ [](\A k \in DOMAIN subs : subs[k].race # "pending" => ~subs[k].timer)
    /\ [][\A k \in DOMAIN subs :
            /\ \A message \in FetchErrors :
                   (subs[k].race = "pending" /\ FetchRejects(k, message))
                   => /\ subs'[k].race = "call"
                      /\ ~subs'[k].timer
                      /\ subs'[k].outcomes = <<"GenericFailure">>
            /\ \A status \in Statuses :
                   (subs[k].race = "pending" /\ FetchResolves(k, status))
                   => /\ subs'[k].race = "call"
                      /\ ~subs'[k].timer
                      /\ subs'[k].outcomes =
                             IF status \in {429, 503} THEN <<"RateLimited">>
                             ELSE IF status = 404 THEN <<"LookupFailed">>
                             ELSE <<>>
            /\ TimerFires(k) => subs[k].fetch = "inflight" /\ subs[k].race = "pending"
         ]_vars

\* A call has settled first and its submission has ended, with its timer cleared,
\* while the timer of another submission has fired.
C19_Witness ==
    /\ \E k \in DOMAIN subs :
           subs[k].race = "call" /\ ~subs[k].timer /\ subs[k].outcomes = <<"GenericFailure">>
    /\ \E k \in DOMAIN subs : subs[k].race = "timer" /\ ~subs[k].timer

\* C20: with the toast hidden and no submission pending, no toast-dismiss timer is
\* scheduled.
C20_NoToastTimerOutlivesToast ==
    (~toast.shown /\ ~isLoading) => toastTimers = 0

\* The digits of a text, in their order.
RECURSIVE DigitsOf(_)
DigitsOf(s) ==
    IF s = <<>> THEN <<>>
    ELSE IF Head(s) \in Digits THEN <<Head(s)>> \o DigitsOf(Tail(s))
    ELSE DigitsOf(Tail(s))

\* C16: whatever text is in the phone field, the handler that runs on it leaves
\* the field holding decimal digits only, namely the digits of the text in their
\* order, and sanitizing that result again gives the same result.
C16_SanitizeDigitsOnlyIdempotent ==
    [][/\ OnlyDigits(inputValue')
       /\ inputValue' = DigitsOf(inputValue)
       /\ Sanitize(inputValue') = inputValue'
       /\ Sanitize(Sanitize(inputValue)) = Sanitize(inputValue)
       /\ OnInput => phoneNumber' = DigitsOf(inputValue)
      ]_vars

\* The handlers have run on a text that was not a valid number: the error is
\* shown for the two digits that are left, and no callback is due.
C16_Witness ==
    /\ inputValue = <<"4", "2">>
    /\ phoneNumber = <<"4", "2">>
    /\ errorShown
    /\ pasteTimers = 0

ExactlyEightDigits(s) == Len(s) = 8 /\ \A i \in 1..Len(s) : s[i] \in Digits

\* C17: validatePhoneNumber accepts a text if and only if it is exactly 8 decimal
\* digits: after the finally block the submit control is enabled for such a text
\* and for no other, and a request has gone out for such a text only.
C17_ValidIffEightDigits ==
    /\ validatePhoneNumber(phoneNumber) <=> ExactlyEightDigits(phoneNumber)
    /\ ~isLoading => (buttonDisabled <=> ~ExactlyEightDigits(phoneNumber))
    /\ subs # <<>> => ExactlyEightDigits(phoneNumber)

\* The control is enabled after the finally block, and in another state it is
\* disabled for a text of 8 characters with a letter.
C17_Witness ==
    /\ ~isLoading
    /\ ~buttonDisabled
    /\ Len(phoneNumber) = 8

HasSpace(s) == \E i \in 1..Len(s) : s[i] = " "

FirstSpace(s) == CHOOSE i \in 1..Len(s) : s[i] = " " /\ \A h \in 1..(i - 1) : s[h] # " "

BeforeFirstSpace(s) == IF HasSpace(s) THEN SubSeq(s, 1, FirstSpace(s) - 1) ELSE s

AfterFirstSpace(s) == IF HasSpace(s) THEN SubSeq(s, FirstSpace(s) + 1, Len(s)) ELSE <<>>

\* C18: the ManualEntryData built from the form has as firstName the text of the
\* name field before its first space and as lastName everything after that space,
\* the empty string when the name has no space; the message an embedded widget
\* posts on submit carries these two values.
C18_NameSplitOnFirstSpace ==
    [][overlays # <<>>
           => /\ ManualData(Page).firstName = BeforeFirstSpace(overlays[1].name)
              /\ ManualData(Page).lastName = AfterFirstSpace(overlays[1].name)
              /\ (embedded /\ ManualEntrySubmit(1))
                     => /\ Len(messages') = 1
                        /\ messages'[1].type = "deliverease-manual-data"
                        /\ messages'[1].data.firstName =
                               BeforeFirstSpace(overlays[1].name)
                        /\ messages'[1].data.lastName =
                               AfterFirstSpace(overlays[1].name)
      ]_vars

\* A name with two spaces has been submitted: the remainder keeps the second.
C18_Witness ==
    /\ overlays = <<>>
    /\ \E i \in DOMAIN messages :
           /\ messages[i].type = "deliverease-manual-data"
           /\ messages[i].data.firstName = <<"a">>
           /\ messages[i].data.lastName = <<" ", "b">>

\* C21: at most one manual-entry overlay exists at any time, whatever the
\* sequence of submissions and outcomes.
C21_AtMostOneOverlay ==
    Len(overlays) <= 1

\* C22: the embedding status never changes; an embedded widget never has a local
\* modal, a standalone widget never posts a message, every message posted has the
\* type deliverease-open-popup, and so no deliverease-manual-data message exists.
C22_ManualDataNeverPosted ==
    /\ [][embedded' = embedded]_vars
    /\ [](/\ embedded => overlays = <<>>
          /\ ~embedded => messages = <<>>
          /\ \A i \in DOMAIN messages :
                 /\ messages[i].type = "deliverease-open-popup"
                 /\ messages[i].type # "deliverease-manual-data")

\* A standalone widget has taken a manual-entry submission (its toast is on
\* display, the modal is gone) and has posted nothing.
C22_Witness ==
    /\ ~embedded
    /\ toast.shown
    /\ toast.text = ManualSubmittedText
    /\ overlays = <<>>
    /\ messages = <<>>

\* C23: from the start of a submission to its terminal outcome the stored phone
\* number is the phone_number of its request, so the message posted for it, and
\* the phone field of the modal opened for it, carry that number.
C23_PhoneNumberStableWhileLoading ==
    /\ [](\A k \in DOMAIN subs : ~Done(k) => phoneNumber = subs[k].phone_number)
    /\ [][\A k \in DOMAIN subs :
            Completes(k)
            => /\ Len(messages') > Len(messages)
                      => messages'[Len(messages')].data.phoneNumber
                             = subs[k].phone_number
               /\ Len(overlays') > Len(overlays)
                      => LastOverlay(overlays').phone = subs[k].phone_number
         ]_vars

\* An embedded widget has posted for a success and for a failure, and a
\* standalone one has opened a modal, each with the number of the request.
C23_Witness ==
    /\ \A k \in DOMAIN subs : Done(k)
    /\ IF embedded
       THEN /\ Len(messages) = 2
            /\ "address" \in DOMAIN messages[1].data
            /\ "error" \in DOMAIN messages[2].data
            /\ messages[2].data.phoneNumber = subs[2].phone_number
       ELSE /\ Len(subs) = 1
            /\ Len(overlays) = 1
            /\ overlays[1].phone = subs[1].phone_number

\* C24: a submission that ends as Success leaves the stored phone number and the
\* field empty, the validation error hidden and the submit control disabled; one
\* that ends as RateLimited, TimedOut or a failure leaves the stored number and
\* the field as they were and the submit control enabled.
C24_OnlySuccessResetsForm ==
    [][\A k \in DOMAIN subs :
           Completes(k)
           => IF subs'[k].outcomes = <<"Success">>
              THEN /\ phoneNumber' = <<>>
                   /\ inputValue' = <<>>
                   /\ ~errorShown'
                   /\ buttonDisabled'
              ELSE /\ subs'[k].outcomes \in {<<"RateLimited">>, <<"TimedOut">>,
                                             <<"LookupFailed">>, <<"GenericFailure">>}
                   /\ phoneNumber' = phoneNumber
                   /\ inputValue' = inputValue
                   /\ phoneNumber' = subs[k].phone_number
                   /\ ~buttonDisabled'
                   /\ ~inputDisabled'
      ]_vars

\* After a success the form is empty and disabled; after a rate-limited answer
\* the same number has been submitted a second time.
C24_Witness ==
    \/ /\ Len(subs) = 1
       /\ subs[1].outcomes = <<"Success">>
       /\ phoneNumber = <<>>
       /\ buttonDisabled
    \/ /\ Len(subs) = 2
       /\ subs[1].outcomes = <<"RateLimited">>
       /\ subs[2].phone_number = subs[1].phone_number
       /\ subs[2].outcomes = <<"TimedOut">>
       /\ ~buttonDisabled

\* C25: while isLoading is true, or while the stored phone number is not exactly
\* 8 digits, a submit event changes nothing: no request, no timer, no message, no
\* toast, no modal, and phoneNumber, isLoading and the controls as they were.
C25_RejectedSubmitIsNoOp ==
    (isLoading \/ ~ExactlyEightDigits(phoneNumber))
        => ~ENABLED (HandleSubmit /\ vars' # vars)

\* A submission is under way with a number of 8 digits stored, and a submit event
\* can arrive.
C25_Witness ==
    /\ isLoading
    /\ ExactlyEightDigits(phoneNumber)
    /\ ENABLED HandleSubmit

Running == {k \in DOMAIN subs : ~Done(k)}

\* C26: isLoading is true exactly while one invocation of handleSubmit has not
\* reached the end of its finally block, and never more than one has; while it is
\* true the input and the submit control are disabled and the spinner is shown,
\* while it is false the input is enabled and the spinner hidden.
C26_LoadingMatchesInvocation ==
    /\ isLoading <=> Running # {}
    /\ Cardinality(Running) <= 1
    /\ isLoading => inputDisabled /\ buttonDisabled /\ spinnerShown
    /\ ~isLoading => ~inputDisabled /\ ~spinnerShown

\* A second invocation is running after the first has ended.
C26_Witness ==
    /\ isLoading
    /\ Len(subs) = 2
    /\ Done(1)
    /\ ~Done(2)
    /\ subs[2].pc = "json"

====
